---------------------------- MODULE Spec2Model ----------------------------
(***************************************************************************)
(* A model of nvd_scraper.py: the week-window calculator, the Playwright   *)
(* page driver (run_scrape), the table extractor (collect_rows) and the    *)
(* top-level boundary (main).                                              *)
(*                                                                         *)
(* Calendar dates are records [year, month, day]; date arithmetic goes     *)
(* through proleptic Gregorian ordinals exactly as datetime.date does, and *)
(* leaves the representable range date.min..date.max with OverflowError.   *)
(* Texts are sequences of one-character strings, so that str.strip() is a  *)
(* real operation on them.                                                 *)
(***************************************************************************)
EXTENDS Integers, Sequences, FiniteSets, TLC

(***************************************************************************)
(* Bounds of the model.                                                    *)
(***************************************************************************)
\* Number of consecutive reference dates taken from each calendar window.
WindowDays == 24
\* Largest number of body rows of a rendered table.
MaxRows == 3
\* Largest number of data cells (td) of a row.
MaxCells == 5
\* Largest value given to --limit.
MaxLimit == 2

(***************************************************************************)
(* datetime.date, as used at lines 4, 106-111.                             *)
(***************************************************************************)
\* date.min.toordinal() and date.max.toordinal()
MinOrdinal == 1
MaxOrdinal == 3652059

IsLeap(y) == (y % 4 = 0) /\ ((y % 100 # 0) \/ (y % 400 = 0))

\* number of days in year y preceding the first day of month m
DaysBeforeMonth(y, m) ==
    LET cum == <<0, 31, 59, 90, 120, 151, 181, 212, 243, 273, 304, 334>>
    IN cum[m] + (IF m > 2 /\ IsLeap(y) THEN 1 ELSE 0)

\* number of days before January 1st of year y
DaysBeforeYear(y) ==
    LET p == y - 1 IN p * 365 + (p \div 4) - (p \div 100) + (p \div 400)

\* date.toordinal()
ToOrdinal(d) == DaysBeforeYear(d.year) + DaysBeforeMonth(d.year, d.month) + d.day

\* date.fromordinal(), the 400/100/4/1-year cycle decomposition of datetime
FromOrdinal(o) ==
    LET n0   == o - 1
        n400 == n0 \div 146097
        r400 == n0 % 146097
        n100 == r400 \div 36524
        r100 == r400 % 36524
        n4   == r100 \div 1461
        r4   == r100 % 1461
        n1   == r4 \div 365
        r1   == r4 % 365
        y    == n400 * 400 + 1 + n100 * 100 + n4 * 4 + n1
    IN IF n1 = 4 \/ n100 = 4
       THEN [year |-> y - 1, month |-> 12, day |-> 31]
       ELSE LET m0 == (r1 + 50) \div 32
                m  == IF DaysBeforeMonth(y, m0) > r1 THEN m0 - 1 ELSE m0
            IN [year |-> y, month |-> m, day |-> r1 - DaysBeforeMonth(y, m) + 1]

\* date.weekday(): Monday is 0, Sunday is 6
Weekday(d) == (ToOrdinal(d) + 6) % 7

\* date + timedelta(days=n): [ok |-> TRUE, date] or OverflowError
DatePlusDays(d, n) ==
    LET o == ToOrdinal(d) + n
    IN IF o >= MinOrdinal /\ o <= MaxOrdinal
       THEN [ok |-> TRUE, date |-> FromOrdinal(o)]
       ELSE [ok |-> FALSE, date |-> d]

\* date comparison (a < b, a <= b)
DateLE(a, b) == ToOrdinal(a) <= ToOrdinal(b)
DateLT(a, b) == ToOrdinal(a) < ToOrdinal(b)

\* A plausible slip of compute_week_range: the clamp of lines 110-111 left out.
compute_week_range_noclamp(today) ==
    LET s == DatePlusDays(today, 0 - Weekday(today))
        e == DatePlusDays(s.date, 6)
    IN IF ~s.ok \/ ~e.ok
       THEN [ok |-> FALSE, start |-> today, end |-> today]
       ELSE [ok |-> TRUE, start |-> s.date, end |-> e.date]

\* compute_week_range(reference), lines 104-112.  ok = FALSE stands for the
\* OverflowError raised by the date arithmetic of line 107 or 108.
compute_week_range(today) ==
    LET s == DatePlusDays(today, 0 - Weekday(today))
        e == DatePlusDays(s.date, 6)
    IN IF ~s.ok \/ ~e.ok
       THEN [ok |-> FALSE, start |-> today, end |-> today]
       ELSE [ok |-> TRUE, start |-> s.date,
             end |-> IF DateLT(today, e.date) THEN today ELSE e.date]


(***************************************************************************)
(* Texts and the rendered table.                                           *)
(***************************************************************************)
Whitespace == {" "}

Min(S) == CHOOSE x \in S : \A y \in S : x <= y
Max(S) == CHOOSE x \in S : \A y \in S : x >= y

\* str.strip() of lines 44, 47-50: leading and trailing whitespace removed
Strip(s) ==
    LET keep == {i \in 1..Len(s) : s[i] \notin Whitespace}
    IN IF keep = {} THEN <<>> ELSE SubSeq(s, Min(keep), Max(keep))

\* The inner text of the anchor of the header cell, when the row has one.
AnchorA == <<" ", "A", " ">>
AnchorB == <<"B">>

\* The inner text of the i-th data cell of a rendered row.
RawCellText(i) ==
    IF i = 1 THEN <<" ", "s", " ", "t", " ">>
    ELSE IF i = 2 THEN <<"p">>
    ELSE IF i = 3 THEN <<"m", " ">>
    ELSE IF i = 4 THEN <<" ", "7">>
    ELSE <<"x", " ">>

\* A body row of the DOM: the texts of the elements matching
\* "th[scope='row'] a" (none or one) and the texts of its k td cells.
Row(a, k) == [anchor |-> a, cells |-> [i \in 1..k |-> RawCellText(i)]]

\* The rows tables are made of: a row without identifier anchor, rows with
\* every number of data cells, and a complete row with another identifier.
RowPool ==
    {Row(<<>>, 4), Row(<<AnchorB>>, 4)} \cup {Row(<<AnchorA>>, k) : k \in 0..MaxCells}

\* The rendered tables: every sequence of at most MaxRows rows.
Tables == UNION {[1..n -> RowPool] : n \in 0..MaxRows}

(***************************************************************************)
(* The command line (lines 129-154).                                       *)
(***************************************************************************)
None == "None"

\* --limit takes any int (type=int, line 134), the other flags are toggles
\* or an optional path.  An optional int is <<>> (None) or <<n>>.
Limits == {<<>>} \cup {<<n>> : n \in (0 - 1)..MaxLimit}
ArgSpace == [limit : Limits, json : BOOLEAN, debug_html : {None, "path"}]

\* date.today() of line 106, for the whole program: a Wednesday.
Todays == {[year |-> 2024, month |-> 3, day |-> 13]}

\* The reference dates compute_week_range is applied to on its own: runs of
\* WindowDays days from date.min, around the turn of 1900 and of 2000,
\* around 2024-02-29, and up to date.max.
WindowStarts ==
    {MinOrdinal,
     ToOrdinal([year |-> 1899, month |-> 12, day |-> 20]),
     ToOrdinal([year |-> 1999, month |-> 12, day |-> 20]),
     ToOrdinal([year |-> 2024, month |-> 2, day |-> 20]),
     MaxOrdinal - WindowDays + 1}
RefDates == {FromOrdinal(a + i) : a \in WindowStarts, i \in 0..(WindowDays - 1)}

VARIABLES
    pc,              \* position of the single control flow
    yearPadding,     \* whether the platform's strftime pads %Y to 4 digits
    url,             \* the search URL run_scrape built
    today,           \* the reference date
    week,            \* result of compute_week_range
    args,            \* parsed command line
    session,         \* "none", "open" or "closed": the browser session
    closeCount,      \* number of browser.close() calls made
    banner,          \* outcome of the consent-banner click
    captured,        \* whether the markup was written to the capture target
    table,           \* the rendered table body, once the wait has seen it
    index,           \* loop variable of collect_rows
    results,         \* the list collect_rows builds
    vulnerabilities, \* what run_scrape holds and returns
    exc,             \* the exception in flight, if any
    stages,          \* page-driver stages started, in order
    stdout,          \* what was printed to standard output
    stderr,          \* "", "diagnostic" (one line) or "traceback"
    exitStatus       \* -1 while running, then the process status

vars == <<pc, yearPadding, url, today, week, args, session, closeCount, banner, captured, table,
          index, results, vulnerabilities, exc, stages, stdout, stderr,
          exitStatus>>

NoExc == [kind |-> "none", at |-> "none"]
NoWeek == [ok |-> FALSE, start |-> FromOrdinal(MinOrdinal), end |-> FromOrdinal(MinOrdinal)]
NoArgs == [limit |-> <<>>, json |-> FALSE, debug_html |-> None]

Start(p, d) ==
    /\ pc = p
    /\ url = <<>>
    /\ today = d
    /\ week = NoWeek
    /\ args = NoArgs
    /\ session = "none"
    /\ closeCount = 0
    /\ banner = "untried"
    /\ captured = FALSE
    /\ table = <<>>
    /\ index = 0
    /\ results = <<>>
    /\ vulnerabilities = <<>>
    /\ exc = NoExc
    /\ stages = <<>>
    /\ stdout = <<>>
    /\ stderr = ""
    /\ exitStatus = 0 - 1

\* Process start of main().  The years of Todays have four digits, for which
\* every strftime gives the same text.
Init == \E d \in Todays : Start("parse_args", d) /\ yearPadding = TRUE


(***************************************************************************)
(* formatted_date and build_search_url, lines 19-32.  A URL is a sequence  *)
(* of pieces: the literal parts of the f-string cut at "?", "&" and "=",   *)
(* and the characters of the two formatted dates.                          *)
(***************************************************************************)
DigitChars == <<"0", "1", "2", "3", "4", "5", "6", "7", "8", "9">>

\* the decimal digits of n >= 0, without padding
RECURSIVE Decimal(_)
Decimal(n) ==
    IF n < 10 THEN <<DigitChars[n + 1]>>
    ELSE Decimal(n \div 10) \o <<DigitChars[(n % 10) + 1]>>

\* the decimal digits of n, zero-padded to w places
RECURSIVE ZeroPad(_, _)
ZeroPad(n, w) ==
    IF Len(Decimal(n)) >= w THEN Decimal(n)
    ELSE <<"0">> \o ZeroPad(n, w - 1) 

\* formatted_date, lines 19-21: value.strftime("%m/%d/%Y").  %m and %d are
\* two digits everywhere; %Y is the year padded to four digits, or, where
\* the C library does not pad it, its plain decimal digits.
formatted_date(value) ==
    ZeroPad(value.month, 2) \o <<"/">> \o ZeroPad(value.day, 2) \o <<"/">>
        \o (IF yearPadding THEN ZeroPad(value.year, 4) ELSE Decimal(value.year))

\* build_search_url, lines 24-32
build_search_url(week_start, week_end) ==
    LET start == formatted_date(week_start)
        end   == formatted_date(week_end)
    IN <<"https://nvd.nist.gov/vuln/search/results",
         "?", "form_type", "=", "Advanced",
         "&", "results_type", "=", "overview",
         "&", "search_type", "=", "all",
         "&", "pub_date_start_date", "=">> \o start
         \o <<"&", "pub_date_end_date", "=">> \o end

(***************************************************************************)
(* collect_rows and run_scrape helpers.                                    *)
(***************************************************************************)
\* A plausible slip of the positional lookup: the score is read from the
\* last cell of the row instead of the fourth.
RecordOfRow_lastcell(row) ==
    LET cells == row.cells
        cell_count == Len(cells)
    IN [cve_id        |-> Strip(row.anchor[1]),
        summary       |-> IF cell_count > 0 THEN Strip(cells[1]) ELSE <<>>,
        published     |-> IF cell_count > 1 THEN Strip(cells[2]) ELSE <<>>,
        last_modified |-> IF cell_count > 2 THEN Strip(cells[3]) ELSE <<>>,
        cvss_score    |-> IF cell_count > 0 THEN Strip(cells[cell_count]) ELSE <<>>]

\* The Vulnerability built from one row with an identifier anchor, lines
\* 44-58 (cells.nth(i) is the (i+1)-th cell).
RecordOfRow(row) ==
    LET cells == row.cells
        cell_count == Len(cells)
    IN [cve_id        |-> Strip(row.anchor[1]),
        summary       |-> IF cell_count > 0 THEN Strip(cells[1]) ELSE <<>>,
        published     |-> IF cell_count > 1 THEN Strip(cells[2]) ELSE <<>>,
        last_modified |-> IF cell_count > 2 THEN Strip(cells[3]) ELSE <<>>,
        cvss_score    |-> IF cell_count > 3 THEN Strip(cells[4]) ELSE <<>>]

\* Lines 99-100: vulnerabilities[:limit] when a limit is given.  A negative
\* limit counts from the end of the list, as Python slices do.
Truncate(vulns, limit) ==
    IF limit = <<>> THEN vulns
    ELSE IF limit[1] >= 0
         THEN SubSeq(vulns, 1, IF limit[1] < Len(vulns) THEN limit[1] ELSE Len(vulns))
         ELSE SubSeq(vulns, 1, Len(vulns) + limit[1])

\* raise: the exception leaves the try block of run_scrape for its finally.
Raise(kind, at) ==
    /\ exc' = [kind |-> kind, at |-> at]
    /\ pc' = "finally"

(***************************************************************************)
(* main, up to the call of run_scrape.                                     *)
(***************************************************************************)
\* args = parser.parse_args(), line 154
ParseArgs ==
    /\ pc = "parse_args"
    /\ \E a \in ArgSpace : args' = a
    /\ pc' = "week"
    /\ UNCHANGED <<yearPadding, url, today, week, session, closeCount, banner, captured, table,
                   index, results, vulnerabilities, exc, stages, stdout,
                   stderr, exitStatus>>

\* week_start, week_end = compute_week_range(), line 156.  An OverflowError
\* is not caught by main.
MainWeek ==
    /\ pc = "week"
    /\ week' = compute_week_range(today)
    /\ IF week'.ok
       THEN pc' = "url" /\ exc' = exc
       ELSE pc' = "uncaught" /\ exc' = [kind |-> "overflow", at |-> "week"]
    /\ UNCHANGED <<yearPadding, url, today, args, session, closeCount, banner, captured, table,
                   index, results, vulnerabilities, stages, stdout, stderr,
                   exitStatus>>

(***************************************************************************)
(* run_scrape, lines 79-101.                                               *)
(***************************************************************************)
\* url = build_search_url(week_start, week_end), line 79
RunScrapeUrl ==
    /\ pc = "url"
    /\ url' = build_search_url(week.start, week.end)
    /\ pc' = "launch"
    /\ UNCHANGED <<yearPadding, today, week, args, session, closeCount,
                   banner, captured, table, index, results, vulnerabilities,
                   exc, stages, stdout, stderr, exitStatus>>

\* playwright.chromium.launch and browser.new_page, lines 83-84.  A launch
\* that fails (no browser installed) raises before any session exists and
\* outside the try block.
Launch ==
    /\ pc = "launch"
    /\ \/ /\ session' = "open"
          /\ pc' = "goto"
          /\ exc' = exc
       \/ /\ session' = session
          /\ pc' = "uncaught"
          /\ exc' = [kind |-> "browser_error", at |-> "launch"]
    /\ UNCHANGED <<yearPadding, url, today, week, args, closeCount, banner, captured, table,
                   index, results, vulnerabilities, stages, stdout, stderr,
                   exitStatus>>

\* page.goto(url, wait_until="domcontentloaded", timeout=60_000), line 86
Goto ==
    /\ pc = "goto"
    /\ stages' = Append(stages, "navigate")
    /\ \/ pc' = "dismiss" /\ exc' = exc
       \/ Raise("timeout", "navigate")
    /\ UNCHANGED <<yearPadding, url, today, week, args, session, closeCount, banner, captured,
                   table, index, results, vulnerabilities, stdout, stderr,
                   exitStatus>>

\* A plausible slip of dismiss_cookie_banner: the timeout is not swallowed.
dismiss_cookie_banner_raising ==
    \/ /\ banner' = "clicked"
       /\ pc' = "capture"
       /\ exc' = exc
    \/ /\ banner' = "timeout"
       /\ Raise("timeout", "consent")

\* dismiss_cookie_banner, lines 63-68: click(timeout=5_000) either clicks
\* the control or times out, and the timeout is swallowed.
dismiss_cookie_banner ==
    \/ /\ banner' = "clicked"
       /\ pc' = "capture"
       /\ exc' = exc
    \/ /\ banner' = "timeout"
       /\ pc' = "capture"
       /\ exc' = exc

\* await dismiss_cookie_banner(page), line 87
Dismiss ==
    /\ pc = "dismiss"
    /\ stages' = Append(stages, "consent")
    /\ dismiss_cookie_banner
    /\ UNCHANGED <<yearPadding, url, today, week, args, session, closeCount, captured, table,
                   index, results, vulnerabilities, stdout, stderr,
                   exitStatus>>

\* A plausible slip of the capture: a failed write is swallowed and the run
\* goes on.
Capture_swallowing ==
    /\ pc = "capture"
    /\ IF args.debug_html = None
       THEN /\ pc' = "settle"
            /\ UNCHANGED <<captured, exc, stages>>
       ELSE /\ stages' = Append(stages, "capture")
            /\ \/ captured' = TRUE /\ pc' = "settle" /\ exc' = exc
               \/ captured' = captured /\ pc' = "settle" /\ exc' = exc
    /\ UNCHANGED <<yearPadding, url, today, week, args, session, closeCount,
                   banner, table, index, results, vulnerabilities, stdout,
                   stderr, exitStatus>>

\* A plausible slip of the capture: the markup is written whether or not a
\* target was given.
Capture_unconditional ==
    /\ pc = "capture"
    /\ stages' = Append(stages, "capture")
    /\ \/ captured' = TRUE /\ pc' = "settle" /\ exc' = exc
       \/ captured' = captured /\ Raise("os_error", "capture")
    /\ UNCHANGED <<yearPadding, url, today, week, args, session, closeCount,
                   banner, table, index, results, vulnerabilities, stdout,
                   stderr, exitStatus>>

\* Lines 90-93: with a capture target, the markup is written to it; open()
\* or write() may fail with OSError.
Capture ==
    /\ pc = "capture"
    /\ IF args.debug_html = None
       THEN /\ pc' = "settle"
            /\ UNCHANGED <<captured, exc, stages>>
       ELSE /\ stages' = Append(stages, "capture")
            /\ \/ captured' = TRUE /\ pc' = "settle" /\ exc' = exc
               \/ captured' = captured /\ Raise("os_error", "capture")
    /\ UNCHANGED <<yearPadding, url, today, week, args, session, closeCount, banner, table,
                   index, results, vulnerabilities, stdout, stderr,
                   exitStatus>>

\* await page.wait_for_timeout(5_000), line 94
Settle ==
    /\ pc = "settle"
    /\ stages' = Append(stages, "settle")
    /\ pc' = "wait"
    /\ UNCHANGED <<yearPadding, url, today, week, args, session, closeCount, banner, captured,
                   table, index, results, vulnerabilities, exc, stdout,
                   stderr, exitStatus>>


(***************************************************************************)
(* collect_rows, lines 35-60.                                              *)
(***************************************************************************)
\* A plausible slip of collect_rows: the wait of line 39 left out, so that a
\* table without body rows is read as it is.
WaitForTable_noWait ==
    /\ pc = "wait"
    /\ stages' = Append(stages, "wait")
    /\ \E t \in Tables : table' = t
    /\ pc' = "count"
    /\ exc' = exc
    /\ UNCHANGED <<yearPadding, url, today, week, args, session, closeCount,
                   banner, captured, index, results, vulnerabilities, stdout,
                   stderr, exitStatus>>

\* page.wait_for_selector("table tbody tr", timeout=60_000), line 39: either
\* a table with at least one body row is there in time, or the wait times
\* out and the page is never read.
WaitForTable ==
    /\ pc = "wait"
    /\ stages' = Append(stages, "wait")
    /\ \/ /\ \E t \in Tables : Len(t) >= 1 /\ table' = t
          /\ pc' = "count"
          /\ exc' = exc
       \/ /\ table' = table
          /\ Raise("timeout", "wait")
    /\ UNCHANGED <<yearPadding, url, today, week, args, session, closeCount, banner, captured,
                   index, results, vulnerabilities, stdout, stderr,
                   exitStatus>>

\* A plausible slip of collect_rows: the browser is closed as soon as the
\* rows are located, before their (lazy) locators are read.
CountRows_closing ==
    /\ pc = "count"
    /\ stages' = Append(stages, "extract")
    /\ results' = <<>>
    /\ index' = 0
    /\ session' = "closed"
    /\ closeCount' = closeCount + 1
    /\ pc' = "rows"
    /\ UNCHANGED <<yearPadding, url, today, week, args, banner, captured,
                   table, vulnerabilities, exc, stdout, stderr, exitStatus>>

\* Lines 40-42: the locator, the empty list and range(await rows.count())
CountRows ==
    /\ pc = "count"
    /\ stages' = Append(stages, "extract")
    /\ results' = <<>>
    /\ index' = 0
    /\ pc' = "rows"
    /\ UNCHANGED <<yearPadding, url, today, week, args, session, closeCount, banner, captured,
                   table, vulnerabilities, exc, stdout, stderr, exitStatus>>

\* A plausible slip of the loop: the cap is applied while extracting, the
\* loop ending as soon as limit records were built.
ExtractRow_stopAtLimit ==
    /\ pc = "rows"
    /\ index < Len(table)
    /\ LET row == table[index + 1]
       IN IF args.limit # <<>> /\ Len(results) >= args.limit[1]
          THEN /\ index' = Len(table)
               /\ UNCHANGED <<results, pc, exc>>
          ELSE IF row.anchor = <<>>
          THEN /\ Raise("timeout", "row")
               /\ UNCHANGED <<results, index>>
          ELSE /\ results' = Append(results, RecordOfRow(row))
               /\ index' = index + 1
               /\ UNCHANGED <<pc, exc>>
    /\ UNCHANGED <<yearPadding, url, today, week, args, session, closeCount,
                   banner, captured, table, vulnerabilities, stages, stdout,
                   stderr, exitStatus>>

\* A plausible slip of the loop: a row whose identifier was already seen is
\* dropped.
ExtractRow_dedup ==
    /\ pc = "rows"
    /\ index < Len(table)
    /\ LET row == table[index + 1]
       IN IF row.anchor = <<>>
          THEN /\ Raise("timeout", "row")
               /\ UNCHANGED <<results, index>>
          ELSE /\ results' =
                     IF \E j \in 1..Len(results) :
                           results[j].cve_id = RecordOfRow(row).cve_id
                     THEN results
                     ELSE Append(results, RecordOfRow(row))
               /\ index' = index + 1
               /\ UNCHANGED <<pc, exc>>
    /\ UNCHANGED <<yearPadding, url, today, week, args, session, closeCount,
                   banner, captured, table, vulnerabilities, stages, stdout,
                   stderr, exitStatus>>

\* A plausible slip of the loop: a row without identifier anchor is skipped.
ExtractRow_skipping ==
    /\ pc = "rows"
    /\ index < Len(table)
    /\ LET row == table[index + 1]
       IN /\ results' = IF row.anchor = <<>> THEN results
                         ELSE Append(results, RecordOfRow(row))
          /\ index' = index + 1
          /\ UNCHANGED <<pc, exc>>
    /\ UNCHANGED <<yearPadding, url, today, week, args, session, closeCount, banner, captured,
                   table, vulnerabilities, stages, stdout, stderr,
                   exitStatus>>

\* One iteration of the loop, lines 43-59.  inner_text() of a locator that
\* matches no element waits its default timeout and raises Playwright's
\* TimeoutError.
ExtractRow ==
    /\ pc = "rows"
    /\ index < Len(table)
    /\ LET row == table[index + 1]
       IN IF row.anchor = <<>>
          THEN /\ Raise("timeout", "row")
               /\ UNCHANGED <<results, index>>
          ELSE /\ results' = Append(results, RecordOfRow(row))
               /\ index' = index + 1
               /\ UNCHANGED <<pc, exc>>
    /\ UNCHANGED <<yearPadding, url, today, week, args, session, closeCount, banner, captured,
                   table, vulnerabilities, stages, stdout, stderr,
                   exitStatus>>

\* return results (line 60) into vulnerabilities (line 95)
ReturnRows ==
    /\ pc = "rows"
    /\ index = Len(table)
    /\ vulnerabilities' = results
    /\ pc' = "finally"
    /\ UNCHANGED <<yearPadding, url, today, week, args, session, closeCount, banner, captured,
                   table, index, results, exc, stages, stdout, stderr,
                   exitStatus>>

(***************************************************************************)
(* run_scrape, the finally block and the return.                           *)
(***************************************************************************)
\* A plausible slip of the teardown: the browser is closed after the try
\* block instead of in a finally, so only when nothing was raised.
CloseEffect_noFinally ==
    IF exc.kind = "none"
    THEN session' = "closed" /\ closeCount' = closeCount + 1
    ELSE UNCHANGED <<session, closeCount>>

\* await browser.close(), line 97
CloseEffect ==
    /\ session' = "closed"
    /\ closeCount' = closeCount + 1

\* finally: (lines 96-97), then the exception, if any, goes on to the caller
Close ==
    /\ pc = "finally"
    /\ stages' = Append(stages, "close")
    /\ CloseEffect
    /\ pc' = IF exc.kind = "none" THEN "truncate" ELSE "uncaught"
    /\ UNCHANGED <<yearPadding, url, today, week, args, banner, captured, table, index,
                   results, vulnerabilities, exc, stdout, stderr,
                   exitStatus>>

\* Lines 99-101
TruncateReturn ==
    /\ pc = "truncate"
    /\ vulnerabilities' = Truncate(vulnerabilities, args.limit)
    /\ pc' = "present"
    /\ UNCHANGED <<yearPadding, url, today, week, args, session, closeCount, banner, captured,
                   table, index, results, exc, stages, stdout, stderr,
                   exitStatus>>

(***************************************************************************)
(* main, after run_scrape: lines 158-174, and display, lines 115-125.      *)
(***************************************************************************)
\* A plausible slip of display: nothing is printed for an empty list.
display_silent(vulns) ==
    [i \in 1..Len(vulns) |->
        [kind |-> "vuln",
         cve_id |-> vulns[i].cve_id,
         published |-> vulns[i].published,
         score |-> IF vulns[i].cvss_score # <<>>
                   THEN <<vulns[i].cvss_score>> ELSE <<>>,
         summary |-> vulns[i].summary,
         last_modified |-> vulns[i].last_modified]]

\* display(vulns): the "no results" line, or per record its three lines
display(vulns) ==
    IF vulns = <<>>
    THEN <<[kind |-> "no_results"]>>
    ELSE [i \in 1..Len(vulns) |->
            [kind |-> "vuln",
             cve_id |-> vulns[i].cve_id,
             published |-> vulns[i].published,
             score |-> IF vulns[i].cvss_score # <<>>
                       THEN <<vulns[i].cvss_score>> ELSE <<>>,
             summary |-> vulns[i].summary,
             last_modified |-> vulns[i].last_modified]]

\* A plausible slip of the boundary: the timeout message is printed and the
\* process then ends normally (no SystemExit).
Handler_exitZero ==
    /\ stderr' = IF exc.kind = "timeout" THEN "diagnostic" ELSE "traceback"
    /\ exitStatus' = IF exc.kind = "timeout" THEN 0 ELSE 1

\* Lines 162-163: Playwright's TimeoutError becomes SystemExit with the
\* one-line message; any other exception ends the process with a traceback.
Handler ==
    /\ stderr' = IF exc.kind = "timeout" THEN "diagnostic" ELSE "traceback"
    /\ exitStatus' = 1

\* An exception reaches main.
Uncaught ==
    /\ pc = "uncaught"
    /\ Handler
    /\ pc' = "done"
    /\ UNCHANGED <<yearPadding, url, today, week, args, session, closeCount, banner, captured,
                   table, index, results, vulnerabilities, exc, stages,
                   stdout>>

\* A plausible slip of the presenter: records are printed as they come,
\* whatever remains of them.
Printed_results(vulns) ==
    IF args.json
    THEN <<[kind |-> "json", records |-> results]>>
    ELSE <<[kind |-> "header", start |-> formatted_date(week.start),
            end |-> formatted_date(week.end),
            total |-> Len(results)]>> \o display(results)

\* A plausible slip of the presenter: the summary line with the total comes
\* after the records.
Printed_headerLast(vulns) ==
    IF args.json
    THEN <<[kind |-> "json", records |-> vulns]>>
    ELSE display(vulns) \o
         <<[kind |-> "header", start |-> formatted_date(week.start),
            end |-> formatted_date(week.end),
            total |-> Len(vulns)]>>

\* Lines 165-174: the JSON dump, or the header and the records
Printed(vulns) ==
    IF args.json
    THEN <<[kind |-> "json", records |-> vulns]>>
    ELSE <<[kind |-> "header", start |-> formatted_date(week.start),
            end |-> formatted_date(week.end),
            total |-> Len(vulns)]>> \o display(vulns)

Present ==
    /\ pc = "present"
    /\ stdout' = Printed(vulnerabilities)
    /\ exitStatus' = 0
    /\ pc' = "done"
    /\ UNCHANGED <<yearPadding, url, today, week, args, session, closeCount, banner, captured,
                   table, index, results, vulnerabilities, exc, stages,
                   stderr>>

Next ==
    \/ ParseArgs
    \/ MainWeek
    \/ RunScrapeUrl
    \/ Launch
    \/ Goto
    \/ Dismiss
    \/ Capture
    \/ Settle
    \/ WaitForTable
    \/ CountRows
    \/ ExtractRow
    \/ ReturnRows
    \/ Close
    \/ TruncateReturn
    \/ Uncaught
    \/ Present

Spec == Init /\ [][Next]_vars


(***************************************************************************)
(* compute_week_range on its own, applied to every reference date.         *)
(***************************************************************************)
InitWeek == \E d \in RefDates : Start("compute_week_range", d) /\ yearPadding = TRUE

\* start, end = compute_week_range(reference)
ComputeWeekRange ==
    /\ pc = "compute_week_range"
    /\ week' = compute_week_range(today)
    /\ pc' = IF week'.ok THEN "week_returned" ELSE "week_raised"
    /\ UNCHANGED <<yearPadding, url, today, args, session, closeCount, banner, captured, table,
                   index, results, vulnerabilities, exc, stages, stdout,
                   stderr, exitStatus>>

NextWeek == ComputeWeekRange

SpecWeek == InitWeek /\ [][NextWeek]_vars

(***************************************************************************)
(* build_search_url on its own, applied to every pair start <= end of      *)
(* reference dates, on a platform of either kind.                          *)
(***************************************************************************)
InitUrl ==
    \E a \in RefDates, b \in RefDates, pad \in BOOLEAN :
        /\ DateLE(a, b)
        /\ pc = "build_search_url"
        /\ yearPadding = pad
        /\ url = <<>>
        /\ today = b
        /\ week = [ok |-> TRUE, start |-> a, end |-> b]
        /\ args = NoArgs
        /\ session = "none"
        /\ closeCount = 0
        /\ banner = "untried"
        /\ captured = FALSE
        /\ table = <<>>
        /\ index = 0
        /\ results = <<>>
        /\ vulnerabilities = <<>>
        /\ exc = NoExc
        /\ stages = <<>>
        /\ stdout = <<>>
        /\ stderr = ""
        /\ exitStatus = 0 - 1

\* url = build_search_url(start, end)
BuildSearchUrl ==
    /\ pc = "build_search_url"
    /\ url' = build_search_url(week.start, week.end)
    /\ pc' = "url_returned"
    /\ UNCHANGED <<yearPadding, today, week, args, session, closeCount,
                   banner, captured, table, index, results, vulnerabilities,
                   exc, stages, stdout, stderr, exitStatus>>

NextUrl == BuildSearchUrl

SpecUrl == InitUrl /\ [][NextUrl]_vars


(***************************************************************************)
(* Vocabulary of the properties.                                           *)
(***************************************************************************)
Date(y, m, d) == [year |-> y, month |-> m, day |-> d]

\* t is raw without its leading and trailing whitespace
IsTrimOf(t, raw) ==
    /\ t = <<>> \/ (t[1] \notin Whitespace /\ t[Len(t)] \notin Whitespace)
    /\ \E a \in 0..Len(raw) :
          /\ a + Len(t) <= Len(raw)
          /\ \A i \in 1..a : raw[i] \in Whitespace
          /\ \A i \in 1..Len(t) : raw[a + i] = t[i]
          /\ \A i \in (a + Len(t) + 1)..Len(raw) : raw[i] \in Whitespace

\* every raw text a rendered row can hold, and for each the one text that is
\* its trimming
RawTexts == {AnchorA, AnchorB} \cup {RawCellText(i) : i \in 1..(MaxCells + 1)}
Trimmed ==
    [raw \in RawTexts |->
        CHOOSE t \in {<<>>} \cup {SubSeq(raw, a, b) : a \in 1..Len(raw), b \in 1..Len(raw)} :
            IsTrimOf(t, raw)]

\* the f-th positional field of a record
Field(r, f) ==
    IF f = 1 THEN r.summary
    ELSE IF f = 2 THEN r.published
    ELSE IF f = 3 THEN r.last_modified
    ELSE r.cvss_score

\* the record of a well-formed row, stated field by field
IsRecordOf(r, row) ==
    /\ r.cve_id = Trimmed[row.anchor[1]]
    /\ \A f \in 1..4 :
          IF f <= Len(row.cells)
          THEN Field(r, f) = Trimmed[row.cells[f]]
          ELSE Field(r, f) = <<>>

Malformed(t) == {i \in 1..Len(t) : t[i].anchor = <<>>}

\* the run went through every stage to a successful return of run_scrape
Succeeded == pc \in {"present", "done"} /\ exc.kind = "none"

\* the records a printed output shows
ShownCount(out) == Cardinality({i \in 1..Len(out) : out[i].kind = "vuln"})
Shows(out, vulns) ==
    IF out = <<>> THEN FALSE
    ELSE IF out[1].kind = "json"
    THEN Len(out) = 1 /\ out[1].records = vulns
    ELSE /\ out[1].kind = "header"
         /\ out[1].total = Len(vulns)
         /\ IF vulns = <<>>
            THEN Len(out) = 2 /\ out[2].kind = "no_results"
            ELSE /\ Len(out) = 1 + Len(vulns)
                 /\ \A i \in 1..Len(vulns) :
                       /\ out[i + 1].kind = "vuln"
                       /\ out[i + 1].cve_id = vulns[i].cve_id
                       /\ out[i + 1].summary = vulns[i].summary
                       /\ out[i + 1].published = vulns[i].published
                       /\ out[i + 1].last_modified = vulns[i].last_modified
                       /\ out[i + 1].score =
                             IF vulns[i].cvss_score = <<>> THEN <<>>
                             ELSE <<vulns[i].cvss_score>>

(***************************************************************************)
(* C1.  On every exit path of run_scrape after the browser session was     *)
(* opened, the session is closed, exactly once: browser.close() is never   *)
(* called twice, and a run that has left run_scrape (to the truncation, to *)
(* main's handler or to the end) with a session opened has it closed by    *)
(* one call.                                                               *)
(***************************************************************************)
C1_SessionClosedExactlyOnce ==
    /\ closeCount <= 1
    /\ (session = "closed") <=> (closeCount = 1)
    /\ (pc \in {"truncate", "present", "uncaught", "done"} /\ session # "none")
          => (session = "closed" /\ closeCount = 1)

\* a run that ended on a row-extraction failure, with the session closed
C1_Witness ==
    pc = "done" /\ exc.at = "row" /\ session = "closed" /\ closeCount = 1

(***************************************************************************)
(* C2.  For every reference date d, compute_week_range(d) returns          *)
(* (start, end) with start <= end <= d, start a Monday and                 *)
(* end - start <= 6 days.  (Stated of every call: the call returns, and    *)
(* what it returns satisfies the contract.)                                *)
(***************************************************************************)
C2_WeekRangeContract ==
    pc \in {"week_returned", "week_raised"} =>
        /\ week.ok
        /\ DateLE(week.start, week.end)
        /\ DateLE(week.end, today)
        /\ Weekday(week.start) = 0
        /\ ToOrdinal(week.end) - ToOrdinal(week.start) <= 6

(***************************************************************************)
(* C3, as stated.  For the reference date Wednesday 2024-03-13,            *)
(* compute_week_range returns the full window (2024-03-11, 2024-03-17).    *)
(***************************************************************************)
C3_FullWindowOnWednesday ==
    (pc = "week_returned" /\ today = Date(2024, 3, 13)) =>
        (week.start = Date(2024, 3, 11) /\ week.end = Date(2024, 3, 17))

(***************************************************************************)
(* C3, amended.  For the reference date Wednesday 2024-03-13,              *)
(* compute_week_range returns (2024-03-11, 2024-03-13): the Monday of the  *)
(* week, and the end clamped to the reference date; and whenever the       *)
(* reference date is not a Sunday the end is the reference date itself.    *)
(***************************************************************************)
C3_ClampedWindowOnWednesday ==
    /\ (pc = "week_returned" /\ today = Date(2024, 3, 13)) =>
          (week.start = Date(2024, 3, 11) /\ week.end = Date(2024, 3, 13))
    /\ (pc = "week_returned" /\ Weekday(today) # 6) => week.end = today
    /\ (pc = "week_returned" /\ Weekday(today) = 6) =>
          ToOrdinal(week.end) = ToOrdinal(week.start) + 6

C3_Witness ==
    /\ pc = "week_returned"
    /\ today = Date(2024, 3, 13)
    /\ Weekday(today) = 2
    /\ week.end = Date(2024, 3, 13)

(***************************************************************************)
(* C4.  When the wait for the table body rows exceeds its deadline, the    *)
(* invocation ends with the timeout error (status 1, the one-line          *)
(* diagnostic), nothing is extracted or printed, and the browser session   *)
(* is closed exactly once.                                                 *)
(***************************************************************************)
C4_TableWaitTimeout ==
    exc.at = "wait" =>
        /\ exc.kind = "timeout"
        /\ pc \in {"finally", "uncaught", "done"}
        /\ results = <<>> /\ vulnerabilities = <<>> /\ stdout = <<>>
        /\ "extract" \notin {stages[i] : i \in 1..Len(stages)}
        /\ pc = "finally" => (session = "open" /\ closeCount = 0)
        /\ pc # "finally" => (session = "closed" /\ closeCount = 1)
        /\ pc = "done" => (stderr = "diagnostic" /\ exitStatus = 1)
        /\ pc # "done" => (stderr = "" /\ exitStatus = 0 - 1)

C4_Witness ==
    /\ pc = "done" /\ exc = [kind |-> "timeout", at |-> "wait"]
    /\ stderr = "diagnostic" /\ closeCount = 1

(***************************************************************************)
(* C5.  A consent-banner click that times out is never a fatal error: no   *)
(* exception comes from the consent stage, the run goes on to capture,     *)
(* settle and extraction, and a successful run returns the records of the  *)
(* rendered table (capped by the limit), the same whether the control was  *)
(* clicked or not.                                                         *)
(***************************************************************************)
C5_ConsentBestEffort ==
    /\ exc.at # "consent"
    /\ (pc = "capture") => (banner \in {"clicked", "timeout"} /\ exc = NoExc)
    /\ (Succeeded /\ banner \in {"clicked", "timeout"}) =>
          /\ \E i \in 1..Len(stages) : stages[i] = "settle"
          /\ \E i \in 1..Len(stages) : stages[i] = "extract"
          /\ Len(results) = Len(table)
          /\ \A i \in 1..Len(table) : IsRecordOf(results[i], table[i])
          /\ pc = "done" =>
                vulnerabilities = Truncate(results, args.limit)

C5_Witness ==
    /\ pc = "done" /\ banner = "timeout" /\ exc.kind = "none"
    /\ Len(vulnerabilities) = 2 /\ exitStatus = 0


(***************************************************************************)
(* C6.  For every rendered table and every cap value the command line      *)
(* accepts, a successful run_scrape returns a sequence whose length is the *)
(* table's row count when no cap is given, and min(rowCount, cap) when a   *)
(* cap is given.                                                           *)
(***************************************************************************)
C6_RowCountOrCap ==
    Succeeded =>
        Len(vulnerabilities) =
            IF args.limit = <<>> THEN Len(table)
            ELSE IF args.limit[1] < Len(table) THEN args.limit[1] ELSE Len(table)

(***************************************************************************)
(* C7.  For every row with k data cells, the record collect_rows builds    *)
(* has, for each of the four positional fields, the trimmed text of data   *)
(* cell i when i < k and the empty text when i >= k; a missing cell never  *)
(* raises: the only rows extraction fails on are rows without identifier   *)
(* anchor, and a table without such a row is extracted to the end.         *)
(***************************************************************************)
C7_MissingCellsAreEmpty ==
    /\ Len(results) <= Len(table)
    /\ \A j \in 1..Len(results) :
          \A f \in 1..4 :
             IF f <= Len(table[j].cells)
             THEN Field(results[j], f) = Trimmed[table[j].cells[f]]
             ELSE Field(results[j], f) = <<>>
    /\ exc.at = "row" => (index + 1) \in Malformed(table)
    /\ (Malformed(table) = {} /\ pc \in {"finally", "truncate", "present", "done"}
          /\ exc.kind = "none")
          => Len(results) = Len(table)

\* three rows, the second without its score cell: three records, the second
\* with an empty score
C7_Witness ==
    /\ pc = "done" /\ exc.kind = "none" /\ args.limit = <<>>
    /\ Len(table) = 3
    /\ Len(table[1].cells) = 4 /\ Len(table[2].cells) = 3 /\ Len(table[3].cells) = 4
    /\ Len(vulnerabilities) = 3
    /\ vulnerabilities[2].cvss_score = <<>>
    /\ vulnerabilities[2].last_modified = <<"m">>
    /\ vulnerabilities[1].cvss_score = <<"7">>

(***************************************************************************)
(* C8.  If a row of the rendered table has no identifier anchor, the whole *)
(* scrape fails: the row is not skipped (extraction stops at the first     *)
(* such row and never reads past it), run_scrape returns nothing - the     *)
(* records of the earlier rows are dropped with the exception - and the    *)
(* invocation ends with a non-zero status and nothing printed.             *)
(***************************************************************************)
C8_MalformedRowIsFatal ==
    Malformed(table) # {} =>
        /\ index < Min(Malformed(table))
        /\ Len(results) < Min(Malformed(table))
        /\ pc \notin {"truncate", "present"}
        /\ vulnerabilities = <<>>
        /\ stdout = <<>>
        /\ pc \in {"finally", "uncaught", "done"} =>
              /\ exc.kind # "none" /\ exc.at = "row"
              /\ index + 1 = Min(Malformed(table))
        /\ pc = "done" => exitStatus = 1

\* the third row is the malformed one: two records were built and dropped
C8_Witness ==
    /\ pc = "done" /\ Malformed(table) = {3}
    /\ Len(results) = 2 /\ vulnerabilities = <<>> /\ exitStatus = 1

(***************************************************************************)
(* C9.  The timeout diagnostic is given for timeouts of the navigation or  *)
(* of the table-presence wait only: a structural extraction error (a row   *)
(* without readable identifier) and a capture I/O error are never reported *)
(* with it.                                                                *)
(***************************************************************************)
C9_TimeoutDiagnosticIsDistinct ==
    (pc = "done" /\ stderr = "diagnostic") => exc.at \in {"navigate", "wait"}

(***************************************************************************)
(* C10.  Output is all-or-nothing.  Nothing is printed before the end of   *)
(* the run; a run that ends on a fatal error has printed no record and     *)
(* nothing else on standard output; a run that ends without error has      *)
(* printed exactly the sequence run_scrape returned, which is the          *)
(* extraction of the whole table, capped; and a fatal timeout ends the     *)
(* process with a non-zero status and the one-line diagnostic.             *)
(***************************************************************************)
C10_AllOrNothingOutput ==
    /\ pc # "done" => stdout = <<>>
    /\ exc.kind # "none" => (stdout = <<>> /\ exitStatus # 0)
    /\ (pc = "done" /\ exc.kind = "none") =>
          /\ Shows(stdout, vulnerabilities)
          /\ ShownCount(stdout) \in {0, Len(vulnerabilities)}
          /\ vulnerabilities = Truncate(results, args.limit)
          /\ Len(results) = Len(table)
          /\ args.limit = <<>> => vulnerabilities = results
          /\ exitStatus = 0 /\ stderr = ""
    /\ (pc = "done" /\ exc.kind = "timeout") =>
          (exitStatus = 1 /\ stderr = "diagnostic")
    /\ (pc = "done" /\ exc.kind \notin {"none", "timeout"}) =>
          (exitStatus = 1 /\ stderr = "traceback")

\* a capped run in text form: three rows extracted, two records shown
C10_Witness ==
    /\ pc = "done" /\ exc.kind = "none" /\ ~args.json
    /\ args.limit = <<2>> /\ Len(results) = 3
    /\ ShownCount(stdout) = 2


(***************************************************************************)
(* Reading a URL back: its query parameters, as the endpoint sees them.    *)
(***************************************************************************)
DigitSet == {DigitChars[k] : k \in 1..10}
DigitValue == [c \in DigitSet |-> CHOOSE k \in 0..9 : DigitChars[k + 1] = c]
DigitVal(c) == DigitValue[c]
IsDigit(c) == c \in DigitSet

\* text is date d written MM/DD/YYYY, every part zero-padded
IsMMDDYYYY(text, d) ==
    /\ Len(text) = 10
    /\ text[3] = "/" /\ text[6] = "/"
    /\ \A i \in {1, 2, 4, 5, 7, 8, 9, 10} : IsDigit(text[i])
    /\ DigitVal(text[1]) * 10 + DigitVal(text[2]) = d.month
    /\ DigitVal(text[4]) * 10 + DigitVal(text[5]) = d.day
    /\ DigitVal(text[7]) * 1000 + DigitVal(text[8]) * 100
          + DigitVal(text[9]) * 10 + DigitVal(text[10]) = d.year

\* positions of the pieces that open a parameter: the "?" and every "&"
ParamOpeners(u) == {i \in 1..Len(u) : u[i] \in {"?", "&"}}

\* the parameter opened at position i: its name, and its value up to the
\* next "&" or the end
ParamAt(u, i) ==
    LET later == {j \in ParamOpeners(u) : j > i}
        stop  == IF later = {} THEN Len(u) ELSE Min(later) - 1
    IN [name |-> u[i + 1], eq |-> u[i + 2], value |-> SubSeq(u, i + 3, stop)]

QueryParams(u) == {ParamAt(u, i) : i \in ParamOpeners(u)}

(***************************************************************************)
(* C11.  For all (start, end) with start <= end, build_search_url returns  *)
(* a URL of the search endpoint whose query holds exactly five parameters: *)
(* form_type=Advanced, results_type=overview, search_type=all, and         *)
(* pub_date_start_date and pub_date_end_date bound to the two dates        *)
(* written as zero-padded MM/DD/YYYY.                                      *)
(***************************************************************************)
C11_UrlContract ==
    pc = "url_returned" =>
        /\ url[1] = "https://nvd.nist.gov/vuln/search/results"
        /\ url[2] = "?"
        /\ Cardinality(ParamOpeners(url)) = 5
        /\ \A q \in QueryParams(url) : q.eq = "="
        /\ {q.name : q \in QueryParams(url)} =
              {"form_type", "results_type", "search_type",
               "pub_date_start_date", "pub_date_end_date"}
        /\ \A q \in QueryParams(url) :
              /\ q.name = "form_type" => q.value = <<"Advanced">>
              /\ q.name = "results_type" => q.value = <<"overview">>
              /\ q.name = "search_type" => q.value = <<"all">>
              /\ q.name = "pub_date_start_date" => IsMMDDYYYY(q.value, week.start)
              /\ q.name = "pub_date_end_date" => IsMMDDYYYY(q.value, week.end)


(***************************************************************************)
(* C12, as stated.  Whenever a successful scrape yields a zero-length      *)
(* record sequence, the "no results" message is printed, in either output  *)
(* format.                                                                 *)
(***************************************************************************)
C12_NoResultsMessageInEveryFormat ==
    (pc = "done" /\ exc.kind = "none" /\ vulnerabilities = <<>>) =>
        \E i \in 1..Len(stdout) : stdout[i].kind = "no_results"

(***************************************************************************)
(* C12, amended.  Whenever a successful scrape yields a zero-length record *)
(* sequence, the text presenter prints, after the header, the "no results" *)
(* message and no record; the structured presenter prints the empty list   *)
(* and no message.  The message is printed for an empty sequence only.     *)
(***************************************************************************)
C12_NoResultsMessageInText ==
    /\ (pc = "done" /\ exc.kind = "none" /\ vulnerabilities = <<>>) =>
          IF args.json
          THEN stdout = <<[kind |-> "json", records |-> <<>>]>>
          ELSE /\ Len(stdout) = 2
               /\ stdout[1].kind = "header" /\ stdout[1].total = 0
               /\ stdout[2].kind = "no_results"
    /\ (\E i \in 1..Len(stdout) : stdout[i].kind = "no_results") =>
          (~args.json /\ vulnerabilities = <<>> /\ exc.kind = "none")

\* a run capped to zero records, in text form
C12_Witness ==
    /\ pc = "done" /\ exc.kind = "none" /\ ~args.json
    /\ vulnerabilities = <<>> /\ Len(results) = 2
    /\ stdout[Len(stdout)].kind = "no_results"

StageOrder == <<"navigate", "consent", "capture", "settle", "wait", "extract", "close">>
StageNames == {StageOrder[k] : k \in 1..Len(StageOrder)}
StageRank == [st \in StageNames |-> CHOOSE k \in 1..Len(StageOrder) : StageOrder[k] = st]
Rank(st) == StageRank[st]
Started(st) == \E i \in 1..Len(stages) : stages[i] = st

(***************************************************************************)
(* C14.  In every run the page-driver stages occur only in the order       *)
(* navigate, consent, (capture), settle, wait, extract, close; each stage  *)
(* is started at most once (no retry); a stage other than close is started *)
(* only when every earlier stage, capture excepted, was started and none   *)
(* of them raised; close is started only after navigate; and capture is    *)
(* started only with a capture target, and, with one, always before        *)
(* settle.                                                                 *)
(***************************************************************************)
C14_StageOrder ==
    LET started == {stages[i] : i \in 1..Len(stages)}
    IN /\ started \subseteq StageNames
       /\ \A i \in 1..(Len(stages) - 1) : Rank(stages[i]) < Rank(stages[i + 1])
       /\ \A st \in started \ {"close"} :
             /\ \A k \in 1..(Rank(st) - 1) :
                   StageOrder[k] # "capture" => StageOrder[k] \in started
             /\ exc.at \in started => Rank(st) <= Rank(exc.at)
       /\ "close" \in started => "navigate" \in started
       /\ "capture" \in started => args.debug_html # None
       /\ ("settle" \in started /\ args.debug_html # None) => "capture" \in started

\* a complete run with a capture target: all seven stages, in order
C14_Witness ==
    /\ pc = "done" /\ exc.kind = "none"
    /\ stages = StageOrder

(***************************************************************************)
(* C15.  The cap is applied only after all rows were extracted: for every  *)
(* cap N and every table in which a row at a position > N has no           *)
(* identifier anchor, the scrape fails with the extraction error and       *)
(* returns nothing, instead of returning the first N records.              *)
(***************************************************************************)
C15_CapAfterFullExtraction ==
    (args.limit # <<>> /\ Malformed(table) # {}) =>
        (Min(Malformed(table)) > args.limit[1] =>
            /\ pc \notin {"truncate", "present"}
            /\ vulnerabilities = <<>>
            /\ stdout = <<>>
            /\ pc = "rows" => index < Min(Malformed(table))
            /\ pc \in {"finally", "uncaught", "done"} =>
                  (exc.at = "row" /\ index + 1 = Min(Malformed(table)))
            /\ pc = "done" => exitStatus = 1)

\* cap 1, the third row malformed: the run fails although one record would do
C15_Witness ==
    /\ pc = "done" /\ args.limit = <<1>> /\ Malformed(table) = {3}
    /\ exc.at = "row" /\ Len(results) = 2 /\ stdout = <<>>

(***************************************************************************)
(* C16.  When a capture target is configured and writing the markup to it  *)
(* fails, the failure is fatal: the settle delay, the table wait and the   *)
(* extraction are never started, no record is returned or printed, the     *)
(* browser session is still closed (once), and the process ends with a     *)
(* non-zero status.                                                        *)
(***************************************************************************)
C16_CaptureFailureIsFatal ==
    /\ (Started("capture") /\ ~captured /\ pc # "capture") => exc.at = "capture"
    /\ exc.at = "capture" =>
          /\ exc.kind = "os_error"
          /\ args.debug_html # None /\ ~captured
          /\ ~Started("settle") /\ ~Started("wait") /\ ~Started("extract")
          /\ table = <<>> /\ results = <<>>
          /\ vulnerabilities = <<>> /\ stdout = <<>>
          /\ pc \in {"finally", "uncaught", "done"}
          /\ pc # "finally" => (session = "closed" /\ closeCount = 1)
          /\ pc = "done" => (exitStatus = 1 /\ stderr = "traceback")

C16_Witness ==
    /\ pc = "done" /\ exc = [kind |-> "os_error", at |-> "capture"]
    /\ session = "closed" /\ stages = <<"navigate", "consent", "capture", "close">>


(***************************************************************************)
(* C17.  collect_rows produces exactly one record per table body row, in   *)
(* document order: the i-th record is built from the i-th row, rows with   *)
(* equal identifiers are all kept, nothing is sorted or merged; and the    *)
(* capped result is a prefix of that sequence.                             *)
(***************************************************************************)
C17_OneRecordPerRowInOrder ==
    /\ pc = "rows" => Len(results) = index
    /\ Len(results) <= Len(table)
    /\ \A i \in 1..Len(results) : IsRecordOf(results[i], table[i])
    /\ (pc \in {"finally", "truncate", "present", "done"} /\ exc.kind = "none") =>
          Len(results) = Len(table)
    /\ Len(vulnerabilities) <= Len(results)
    /\ \A i \in 1..Len(vulnerabilities) : vulnerabilities[i] = results[i]
    /\ pc = "truncate" => vulnerabilities = results

\* the first and third rows are the same row: both are kept, around the
\* second, and a cap of 2 keeps the first two
C17_Witness ==
    /\ pc = "done" /\ exc.kind = "none" /\ args.limit = <<2>>
    /\ Len(table) = 3 /\ table[1] = table[3] /\ table[1] # table[2]
    /\ Len(results) = 3 /\ results[1] = results[3] /\ results[1] # results[2]
    /\ results[2].cve_id = <<"B">>
    /\ vulnerabilities = <<results[1], results[2]>>

(***************************************************************************)
(* C18.  No operation on the page or the browser is issued after the       *)
(* session was closed: wherever the control flow is about to navigate,     *)
(* click, capture, delay, wait or read a row, the session is open; close   *)
(* is the last stage of every run; and the results are truncated and       *)
(* presented only after the close.                                         *)
(***************************************************************************)
C18_NoSessionUseAfterClose ==
    /\ pc \in {"goto", "dismiss", "capture", "settle", "wait", "count", "rows",
               "finally"} => session = "open"
    /\ session = "closed" =>
          /\ pc \in {"truncate", "present", "uncaught", "done"}
          /\ stages # <<>> /\ stages[Len(stages)] = "close"
    /\ pc \in {"truncate", "present"} => session = "closed"
    /\ stdout # <<>> => session = "closed"
    /\ \A i \in 1..(Len(stages) - 1) : stages[i] # "close"

\* a presented run: the session was closed before the capped records were shown
C18_Witness ==
    /\ pc = "done" /\ session = "closed" /\ stdout # <<>>
    /\ args.limit = <<1>> /\ Len(results) = 3 /\ Len(vulnerabilities) = 1
    /\ stages[Len(stages)] = "close"

(***************************************************************************)
(* C19.  When no cap is configured, run_scrape never returns an empty      *)
(* sequence: a table without body rows lets the table-presence wait expire *)
(* and the invocation ends with the timeout error, so that without a cap   *)
(* the "no results" message is never printed.                              *)
(***************************************************************************)
C19_NoEmptyResultWithoutCap ==
    /\ (Succeeded /\ args.limit = <<>>) => vulnerabilities # <<>>
    /\ pc \in {"count", "rows"} => Len(table) >= 1
    /\ (Started("wait") /\ pc # "wait" /\ table = <<>>) =>
          (exc = [kind |-> "timeout", at |-> "wait"] /\ stdout = <<>>)
    /\ (\E i \in 1..Len(stdout) : stdout[i].kind = "no_results") =>
          (args.limit # <<>> /\ Len(results) >= 1)

\* no row in time, no cap, text form: the timeout diagnostic, not the message
C19_Witness ==
    /\ pc = "done" /\ args.limit = <<>> /\ ~args.json
    /\ table = <<>> /\ exc.at = "wait"
    /\ stderr = "diagnostic" /\ stdout = <<>> /\ exitStatus = 1

====
